---- MODULE Spec2Model ----
(***************************************************************************)
(* Model of server.js: the INPE 10-minute fire CSV relay.                  *)
(*   getLatestCsvUrl   - scans the directory listing for CSV links and     *)
(*                       resolves the last one against LIST_URL            *)
(*   GET /fires/recents - fetches that CSV, splits it into records and     *)
(*                       answers JSON, or 500 when anything throws         *)
(* Texts are TLA+ strings; they are scanned character by character, the    *)
(* way String.prototype.split and the regular expression do.               *)
(***************************************************************************)
EXTENDS Integers, Sequences, FiniteSets, TLC

VARIABLES pc, listResp, csvResp, url, res, fetches, stage, input, output

vars == <<pc, listResp, csvResp, url, res, fetches, stage, input, output>>

handlerVars == <<pc, listResp, csvResp, url, res, fetches>>

pureVars == <<stage, input, output>>

(***************************************************************************)
(* Bounds of the model                                                     *)
(***************************************************************************)
\* number of GET /fires/recents requests that may be in flight together
NReq == 2

\* longest CSV text enumerated character by character
MaxText == 7

\* most fragments a directory listing body is assembled from
MaxLinks == 3

(***************************************************************************)
(* Constants of server.js                                                  *)
(***************************************************************************)
LIST_URL == "https://dataserver-coids.inpe.br/queimadas/queimadas/focos/csv/10min/"

FONTE == "INPE - Queimadas (últimos 10 min)"

NO_CSV_MESSAGE == "Nenhum CSV encontrado no diretório do INPE."

FAIL_MESSAGE == "Falha ao buscar CSV do INPE"

(***************************************************************************)
(* Strings                                                                 *)
(***************************************************************************)
CharAt(s, i) == SubSeq(s, i, i)

Max(S) == CHOOSE m \in S : \A n \in S : n <= m

\* String.prototype.split(sep) for a one-character separator: the pieces
\* between separators, in order; a text without separator is one piece and
\* the empty text gives one empty piece.
RECURSIVE SplitFrom(_, _, _, _)
SplitFrom(s, sep, start, i) ==
    IF i > Len(s) THEN <<SubSeq(s, start, Len(s))>>
    ELSE IF CharAt(s, i) = sep
         THEN <<SubSeq(s, start, i - 1)>> \o SplitFrom(s, sep, i + 1, i + 1)
         ELSE SplitFrom(s, sep, start, i + 1)

Split(s, sep) == SplitFrom(s, sep, 1, 1)

(***************************************************************************)
(* getLatestCsvUrl                                                         *)
(***************************************************************************)
Digits == {"0", "1", "2", "3", "4", "5", "6", "7", "8", "9"}

AllDigits(s, from, to) == \A k \in from..to : CharAt(s, k) \in Digits

\* /href="(focos_10min_\d{8}_\d{4}\.csv)"/ matched with its first character
\* at position i: 6 + 12 + 8 + 1 + 4 + 4 + 1 characters.
MatchesAt(s, i) ==
    /\ i + 35 <= Len(s)
    /\ SubSeq(s, i, i + 5) = "href=\""
    /\ SubSeq(s, i + 6, i + 17) = "focos_10min_"
    /\ AllDigits(s, i + 18, i + 25)
    /\ CharAt(s, i + 26) = "_"
    /\ AllDigits(s, i + 27, i + 30)
    /\ SubSeq(s, i + 31, i + 34) = ".csv"
    /\ CharAt(s, i + 35) = "\""

\* capture group 1 of a match at i: the filename between the quotes
Group1(s, i) == SubSeq(s, i + 6, i + 34)

\* [...html.matchAll(re)].map(m => m[1]): the global scan goes left to
\* right and resumes right after the end of each match.
RECURSIVE MatchAllFrom(_, _)
MatchAllFrom(s, i) ==
    IF i > Len(s) THEN << >>
    ELSE IF MatchesAt(s, i)
         THEN <<Group1(s, i)>> \o MatchAllFrom(s, i + 36)
         ELSE MatchAllFrom(s, i + 1)

MatchAll(html) == MatchAllFrom(html, 1)

\* position of the last "/" of s, 0 when there is none
RECURSIVE LastSlash(_, _)
LastSlash(s, i) ==
    IF i = 0 THEN 0
    ELSE IF CharAt(s, i) = "/" THEN i ELSE LastSlash(s, i - 1)

\* new URL(file, base).toString() for a plain relative filename: the base
\* up to and including its last "/", followed by the filename.
ResolveUrl(file, base) == SubSeq(base, 1, LastSlash(base, Len(base))) \o file

\* a resolver that takes the first link of the listing instead of the last
FirstFile(matches) == matches[1]

\* matches[matches.length - 1]
latestFile(matches) == matches[Len(matches)]

\* a resolver without the check for an empty match list: the missing
\* filename is resolved as the text "undefined"
getLatestCsvUrlNoThrow(html) ==
    LET matches == MatchAll(html)
    IN  [ok |-> TRUE,
         url |-> ResolveUrl(IF Len(matches) = 0 THEN "undefined" ELSE latestFile(matches),
                            LIST_URL)]

\* The body of getLatestCsvUrl once the listing text is there: throws when
\* nothing matches, otherwise returns the resolved URL of the last match.
getLatestCsvUrl(html) ==
    LET matches == MatchAll(html)
    IN  IF Len(matches) = 0
        THEN [ok |-> FALSE, error |-> NO_CSV_MESSAGE]
        ELSE [ok |-> TRUE, url |-> ResolveUrl(latestFile(matches), LIST_URL)]

(***************************************************************************)
(* CSV to JSON                                                             *)
(***************************************************************************)
\* csv.split("\n").map(line => line.split(";"))
Rows(csv) ==
    LET lines == Split(csv, "\n")
    IN  [i \in 1..Len(lines) |-> Split(lines[i], ";")]

\* Object.fromEntries(row.map((val, i) => [headers[i], val])): one key per
\* distinct header name; a later entry overwrites an earlier one.
RowToRecord(headers, row) ==
    [k \in {headers[i] : i \in 1..Len(row)} |->
        row[Max({i \in 1..Len(row) : headers[i] = k})]]

\* a filter that also lets rows with too few values through
KeepRowAtMost(headers, row) == Len(row) <= Len(headers)

\* r => r.length === headers.length
KeepRow(headers, row) == Len(row) = Len(headers)

RECURSIVE FilterMap(_, _)
FilterMap(headers, rows) ==
    IF Len(rows) = 0 THEN << >>
    ELSE IF KeepRow(headers, Head(rows))
         THEN <<RowToRecord(headers, Head(rows))>> \o FilterMap(headers, Tail(rows))
         ELSE FilterMap(headers, Tail(rows))

\* a transform that leaves the header row among the data rows
ParseCsvKeepHeader(csv) ==
    LET rows == Rows(csv)
    IN  FilterMap(Head(rows), rows)

\* rows.shift() takes the header row off; the rest is filtered and mapped.
ParseCsv(csv) ==
    LET rows == Rows(csv)
    IN  FilterMap(Head(rows), Tail(rows))

HeadersOf(csv) == Head(Rows(csv))

(***************************************************************************)
(* GET /fires/recents                                                      *)
(***************************************************************************)
Reqs == 1..NReq

\* What the upstream does with one fetch: the promise rejects (network
\* error), or it resolves to a response whose status is known at once and
\* whose body is read afterwards by r.text(); that read succeeds with the
\* text or fails.
Rejected == [kind |-> "rejected"]

Response(status, body) == [kind |-> "response", status |-> status, body |-> body]

BodyFailed(status) == [kind |-> "bodyfailed", status |-> status]

\* a resolved fetch whose body is still on the wire
Headers(status) == [kind |-> "headers", status |-> status]

NotYet == [kind |-> "none"]

FileA == "href=\"focos_10min_20251006_1200.csv\""

FileB == "href=\"focos_10min_20251006_1210.csv\""

FileC == "href=\"focos_10min_20251005_2350.csv\""

\* outcomes of fetch(LIST_URL).then(r => r.text())
ListOutcomes ==
    { Rejected,
      BodyFailed(200),
      Response(200, ""),
      Response(200, "<html>no links</html>"),
      Response(200, "<a " \o FileA \o ">"),
      Response(200, FileB \o " " \o FileA),
      Response(404, "Not Found"),
      Response(503, "<a " \o FileC \o ">") }

\* outcomes of fetch(url).then(r => r.text())
CsvOutcomes ==
    { Rejected,
      BodyFailed(200),
      Response(200, ""),
      Response(200, "lat;lon\n1;2\nbad\n1;2\n"),
      Response(200, "id\n7\n"),
      Response(404, "Not Found"),
      Response(500, "lat;lon\n3;4") }

\* the statuses a fetch can resolve with
StatusesOf(outcomes) == {o.status : o \in {x \in outcomes : x.kind # "rejected"}}

\* res.json({...}): status 200
OkResponse(arquivo, json) ==
    [status |-> 200,
     body |-> [fonte |-> FONTE, arquivo |-> arquivo,
               total_registros |-> Len(json), dados |-> json]]

\* res.status(500).json({ error: ... })
ErrorResponse == [status |-> 500, body |-> [error |-> FAIL_MESSAGE]]

NoResponse == [status |-> 0]

\* r => r.text(): the body of the response, whatever its status
TextOf(resp) == resp.body

\* a url kept in one module-level slot that the requests share
UrlShared(r) == url[CHOOSE q \in Reqs : url[q] # ""]

\* the url local of the handler invocation serving request r
UrlOf(r) == url[r]

HandlerInit ==
    /\ pc = [r \in Reqs |-> "idle"]
    /\ listResp = [r \in Reqs |-> NotYet]
    /\ csvResp = [r \in Reqs |-> NotYet]
    /\ url = [r \in Reqs |-> ""]
    /\ res = [r \in Reqs |-> NoResponse]
    /\ fetches = [r \in Reqs |-> << >>]

PureIdle ==
    /\ stage = "off"
    /\ input = ""
    /\ output = << >>

\* The request arrives: the handler calls getLatestCsvUrl, which issues
\* fetch(LIST_URL) and suspends.
Request(r) ==
    /\ pc[r] = "idle"
    /\ pc' = [pc EXCEPT ![r] = "awaitListing"]
    /\ fetches' = [fetches EXCEPT ![r] = Append(@, LIST_URL)]
    /\ UNCHANGED <<listResp, csvResp, url, res, pureVars>>

\* fetch(LIST_URL) rejects: the await of line 10 throws out of
\* getLatestCsvUrl; the handler's catch runs in a later turn.
ListingRejected(r) ==
    /\ pc[r] = "awaitListing"
    /\ Rejected \in ListOutcomes
    /\ listResp' = [listResp EXCEPT ![r] = Rejected]
    /\ pc' = [pc EXCEPT ![r] = "thrown"]
    /\ UNCHANGED <<csvResp, url, res, fetches, pureVars>>

\* fetch(LIST_URL) resolves: the status is there, r => r.text() starts
\* reading the body and getLatestCsvUrl stays suspended.
ListingResolves(r) ==
    /\ pc[r] = "awaitListing"
    /\ \E st \in StatusesOf(ListOutcomes) :
        listResp' = [listResp EXCEPT ![r] = Headers(st)]
    /\ pc' = [pc EXCEPT ![r] = "readListing"]
    /\ UNCHANGED <<csvResp, url, res, fetches, pureVars>>

\* reading the listing body fails: r.text() rejects, line 10 throws.
ListingBodyFails(r) ==
    /\ pc[r] = "readListing"
    /\ BodyFailed(listResp[r].status) \in ListOutcomes
    /\ listResp' = [listResp EXCEPT ![r] = BodyFailed(@.status)]
    /\ pc' = [pc EXCEPT ![r] = "thrown"]
    /\ UNCHANGED <<csvResp, url, res, fetches, pureVars>>

\* The listing body arrives and no link matches: line 15 throws; the
\* handler's catch runs in a later turn.
ListingWithoutCsv(r) ==
    /\ pc[r] = "readListing"
    /\ \E o \in ListOutcomes :
        /\ o.kind = "response"
        /\ o.status = listResp[r].status
        /\ ~getLatestCsvUrl(TextOf(o)).ok
        /\ listResp' = [listResp EXCEPT ![r] = o]
    /\ pc' = [pc EXCEPT ![r] = "thrown"]
    /\ UNCHANGED <<csvResp, url, res, fetches, pureVars>>

\* The listing body arrives and lines 13-19 return the URL; the handler
\* resumes at line 24 in a later turn.
ListingWithCsv(r) ==
    /\ pc[r] = "readListing"
    /\ \E o \in ListOutcomes :
        /\ o.kind = "response"
        /\ o.status = listResp[r].status
        /\ getLatestCsvUrl(TextOf(o)).ok
        /\ listResp' = [listResp EXCEPT ![r] = o]
    /\ pc' = [pc EXCEPT ![r] = "urlReturned"]
    /\ UNCHANGED <<csvResp, url, res, fetches, pureVars>>

\* The handler resumes with the value getLatestCsvUrl returned (line 24),
\* issues fetch(url) (line 25) and suspends.
IssueCsvFetch(r) ==
    /\ pc[r] = "urlReturned"
    /\ url' = [url EXCEPT ![r] = getLatestCsvUrl(TextOf(listResp[r])).url]
    /\ fetches' = [fetches EXCEPT ![r] = Append(@, getLatestCsvUrl(TextOf(listResp[r])).url)]
    /\ pc' = [pc EXCEPT ![r] = "awaitCsv"]
    /\ UNCHANGED <<listResp, csvResp, res, pureVars>>

\* fetch(url) rejects: the await of line 25 throws; the catch runs in a
\* later turn.
CsvRejected(r) ==
    /\ pc[r] = "awaitCsv"
    /\ Rejected \in CsvOutcomes
    /\ csvResp' = [csvResp EXCEPT ![r] = Rejected]
    /\ pc' = [pc EXCEPT ![r] = "thrown"]
    /\ UNCHANGED <<listResp, url, res, fetches, pureVars>>

\* fetch(url) resolves: the status is there, r => r.text() starts reading
\* the body and the handler stays suspended.
CsvResolves(r) ==
    /\ pc[r] = "awaitCsv"
    /\ \E st \in StatusesOf(CsvOutcomes) :
        csvResp' = [csvResp EXCEPT ![r] = Headers(st)]
    /\ pc' = [pc EXCEPT ![r] = "readCsv"]
    /\ UNCHANGED <<listResp, url, res, fetches, pureVars>>

\* reading the CSV body fails: r.text() rejects, line 25 throws.
CsvBodyFails(r) ==
    /\ pc[r] = "readCsv"
    /\ BodyFailed(csvResp[r].status) \in CsvOutcomes
    /\ csvResp' = [csvResp EXCEPT ![r] = BodyFailed(@.status)]
    /\ pc' = [pc EXCEPT ![r] = "thrown"]
    /\ UNCHANGED <<listResp, url, res, fetches, pureVars>>

\* The CSV body arrives: the text is split, filtered, mapped and sent
\* (lines 28-41).
CsvArrives(r) ==
    /\ pc[r] = "readCsv"
    /\ \E o \in CsvOutcomes :
        /\ o.kind = "response"
        /\ o.status = csvResp[r].status
        /\ csvResp' = [csvResp EXCEPT ![r] = o]
        /\ res' = [res EXCEPT ![r] = OkResponse(UrlOf(r), ParseCsv(TextOf(o)))]
    /\ pc' = [pc EXCEPT ![r] = "done"]
    /\ UNCHANGED <<listResp, url, fetches, pureVars>>

\* The rejection reaches the handler: the catch of lines 42-45 answers 500.
HandlerCatch(r) ==
    /\ pc[r] = "thrown"
    /\ res' = [res EXCEPT ![r] = ErrorResponse]
    /\ pc' = [pc EXCEPT ![r] = "done"]
    /\ UNCHANGED <<listResp, csvResp, url, fetches, pureVars>>

Init == HandlerInit /\ PureIdle

Next ==
    \E r \in Reqs :
        \/ Request(r)
        \/ ListingRejected(r)
        \/ ListingResolves(r)
        \/ ListingBodyFails(r)
        \/ ListingWithoutCsv(r)
        \/ ListingWithCsv(r)
        \/ IssueCsvFetch(r)
        \/ CsvRejected(r)
        \/ CsvResolves(r)
        \/ CsvBodyFails(r)
        \/ CsvArrives(r)
        \/ HandlerCatch(r)

Spec == Init /\ [][Next]_vars

\* A rejected promise always reaches its handler: the microtask queue is
\* drained before the event loop waits again, so the catch does run.
FairSpec == Spec /\ \A r \in Reqs : WF_vars(HandlerCatch(r))

(***************************************************************************)
(* getLatestCsvUrl on its own, over listing bodies assembled from link     *)
(* fragments: well-formed links, near misses and filler                    *)
(***************************************************************************)
Fragments ==
    { FileA, FileB, FileC,
      "<a>",
      "href=\"focos_10min_",
      "href=\"focos_10min_2025100_1200.csv\"",
      "href=\"focos_10min_20251006_12100.csv\"" }

RECURSIVE Concats(_, _)
Concats(parts, n) ==
    IF n = 0 THEN {""}
    ELSE LET shorter == Concats(parts, n - 1)
         IN  shorter \cup {s \o p : s \in shorter, p \in parts}

ListingBodies == Concats(Fragments, MaxLinks)

InitResolve ==
    /\ HandlerInit
    /\ stage = "listing"
    /\ input \in ListingBodies
    /\ output = << >>

\* lines 13-19 applied to the listing text
Resolve ==
    /\ stage = "listing"
    /\ stage' = "resolved"
    /\ output' = getLatestCsvUrl(input)
    /\ UNCHANGED <<input, handlerVars>>

NextResolve == Resolve

SpecResolve == InitResolve /\ [][NextResolve]_vars

(***************************************************************************)
(* The CSV to JSON transform on its own, over every text of at most        *)
(* MaxText characters of the alphabet, and the examples of the format      *)
(***************************************************************************)
Alphabet == {"a", "b", ";", "\n"}

ExampleTexts ==
    { "a;b;c\n1;2;3\nbad;row\n4;5;6\n",
      "lat;lon\n-3.1;-60.2\n-3.1;-60.2\n",
      "id;id\n1;2\n",
      "id\n7\n\n8" }

CsvTexts == Concats(Alphabet, MaxText) \cup ExampleTexts

InitParse ==
    /\ HandlerInit
    /\ stage = "text"
    /\ input \in CsvTexts
    /\ output = << >>

\* lines 28-34 applied to the CSV text
Parse ==
    /\ stage = "text"
    /\ stage' = "parsed"
    /\ output' = ParseCsv(input)
    /\ UNCHANGED <<input, handlerVars>>

NextParse == Parse

SpecParse == InitParse /\ [][NextParse]_vars

(***************************************************************************)
(* Vocabulary of the properties.  Lines, fields and links are described    *)
(* here by the positions of their delimiters in the text, without the      *)
(* scanning operators above.                                               *)
(***************************************************************************)
SepPositions(s, sep) == {i \in 1..Len(s) : CharAt(s, i) = sep}

PieceCount(s, sep) == Cardinality(SepPositions(s, sep)) + 1

\* position of the k-th separator; 0 before the first piece and Len(s) + 1
\* after the last one
SepAt(s, sep, k) ==
    IF k = 0 THEN 0
    ELSE IF k = PieceCount(s, sep) THEN Len(s) + 1
    ELSE CHOOSE i \in SepPositions(s, sep) :
            Cardinality({j \in SepPositions(s, sep) : j <= i}) = k

\* the k-th piece of s, k in 1..PieceCount(s, sep)
PieceOf(s, sep, k) == SubSeq(s, SepAt(s, sep, k - 1) + 1, SepAt(s, sep, k) - 1)

LineOf(text, k) == PieceOf(text, "\n", k)

LineCount(text) == PieceCount(text, "\n")

FieldCount(line) == PieceCount(line, ";")

\* the lines after the first whose value count equals the header's
MatchingLines(text) ==
    {k \in 2..LineCount(text) : FieldCount(LineOf(text, k)) = FieldCount(LineOf(text, 1))}

\* the m-th smallest element of a set of numbers
NthOf(S, m) == CHOOSE k \in S : Cardinality({j \in S : j <= k}) = m

\* rec pairs the names of header with the values of line by position; where
\* a name is repeated, the value at its last position is the one paired.
PairsByPosition(rec, header, line) ==
    /\ DOMAIN rec = {PieceOf(header, ";", j) : j \in 1..FieldCount(header)}
    /\ \A j \in 1..FieldCount(header) :
          (\A j2 \in (j + 1)..FieldCount(header) :
                PieceOf(header, ";", j2) # PieceOf(header, ";", j))
          => rec[PieceOf(header, ";", j)] = PieceOf(line, ";", j)

\* positions of the listing body where a CSV link starts
LinkPositions(body) == {i \in 1..Len(body) : MatchesAt(body, i)}

\* filename of the link starting at i
FileAt(body, i) == SubSeq(body, i + 6, i + 34)

DigitSeq == <<"0", "1", "2", "3", "4", "5", "6", "7", "8", "9">>

RECURSIVE NumberOf(_)
NumberOf(s) ==
    IF Len(s) = 0 THEN 0
    ELSE NumberOf(SubSeq(s, 1, Len(s) - 1)) * 10
            + (CHOOSE d \in 0..9 : DigitSeq[d + 1] = CharAt(s, Len(s)))

\* focos_10min_YYYYMMDD_HHMM.csv
DateOf(file) == NumberOf(SubSeq(file, 13, 20))

TimeOf(file) == NumberOf(SubSeq(file, 22, 25))

NotLater(f, g) ==
    \/ DateOf(f) < DateOf(g)
    \/ DateOf(f) = DateOf(g) /\ TimeOf(f) <= TimeOf(g)

RECURSIVE Join(_, _)
Join(pieces, sep) ==
    IF Len(pieces) = 0 THEN ""
    ELSE IF Len(pieces) = 1 THEN pieces[1]
    ELSE pieces[1] \o sep \o Join(Tail(pieces), sep)

\* header line, then one line per record with the values in header order
Serialise(header, records) ==
    Join(<<Join(header, ";")>>
            \o [m \in 1..Len(records) |->
                    Join([j \in 1..Len(header) |-> records[m][header[j]]], ";")],
         "\n")

FailedFetch(o) ==
    \/ o.kind \in {"rejected", "bodyfailed"}
    \/ o.kind = "response" /\ o.status \notin 200..299

\* the listing body of request r has arrived and holds no CSV link
NoLinkArrived(r) ==
    /\ listResp[r].kind = "response"
    /\ LinkPositions(listResp[r].body) = {}

IsError500(response) ==
    /\ response.status = 500
    /\ DOMAIN response.body = {"error"}

(***************************************************************************)
(* Properties                                                              *)
(***************************************************************************)

\* C1: when the listing body holds at least one CSV link, getLatestCsvUrl
\* returns LIST_URL followed by the filename of the link that appears last
\* in the body, whatever the other links are.
C1_LastMatchResolved ==
    (stage = "resolved" /\ LinkPositions(input) # {})
    => output = [ok |-> TRUE,
                 url |-> LIST_URL \o FileAt(input, Max(LinkPositions(input)))]

\* C1 witness: a resolved listing with several links whose last link is
\* neither the first one nor the one with the latest timestamp.
C1_Witness ==
    /\ stage = "resolved"
    /\ input = FileB \o "href=\"focos_10min_" \o FileC
    /\ output.ok
    /\ output.url = LIST_URL \o "focos_10min_20251005_2350.csv"

\* C2: dados is exactly the lines after the first whose value count equals
\* the header's field count, in their order, duplicates kept, each as the
\* record pairing header names with values by position.
C2_RecordsAreTheMatchingLines ==
    stage = "parsed"
    => /\ Len(output) = Cardinality(MatchingLines(input))
       /\ \A m \in 1..Len(output) :
             PairsByPosition(output[m], LineOf(input, 1),
                             LineOf(input, NthOf(MatchingLines(input), m)))

\* C2 witness: the example of the format, whose malformed row is dropped,
\* and a text with the same row twice.
C2_Witness ==
    /\ stage = "parsed"
    /\ \/ /\ input = "a;b;c\n1;2;3\nbad;row\n4;5;6\n"
          /\ output = <<[a |-> "1", b |-> "2", c |-> "3"],
                        [a |-> "4", b |-> "5", c |-> "6"]>>
       \/ /\ input = "lat;lon\n-3.1;-60.2\n-3.1;-60.2\n"
          /\ Len(output) = 2
          /\ output[1] = output[2]

\* C3: a request one of whose fetches failed (rejected, or answered with a
\* non-2xx status) is answered 500 with an error body, and no URL is
\* fetched twice.
C3_FailedFetchGives500 ==
    \A r \in Reqs :
        (pc[r] = "done" /\ (FailedFetch(listResp[r]) \/ FailedFetch(csvResp[r])))
        => /\ IsError500(res[r])
           /\ \A i, j \in 1..Len(fetches[r]) : fetches[r][i] = fetches[r][j] => i = j

\* C4: once a listing body without CSV link has arrived, getLatestCsvUrl
\* has failed with the no-artifacts error, the CSV fetch is never issued,
\* no answer other than 500 with an error body is given, and that answer
\* does follow.
C4_NoLinkNoCsvFetch ==
    /\ [](\A r \in Reqs :
            NoLinkArrived(r)
            => /\ getLatestCsvUrl(listResp[r].body) = [ok |-> FALSE, error |-> NO_CSV_MESSAGE]
               /\ pc[r] \in {"thrown", "done"}
               /\ fetches[r] = <<LIST_URL>>
               /\ csvResp[r] = NotYet
               /\ pc[r] = "thrown" => res[r] = NoResponse
               /\ pc[r] = "done" => IsError500(res[r]))
    /\ \A r \in Reqs :
            NoLinkArrived(r) ~> (pc[r] = "done" /\ IsError500(res[r]))

\* C4 witness: a request answered 500 after an empty listing body while
\* another, whose listing body has no link, has thrown and is not answered.
C4_Witness ==
    \E r, q \in Reqs :
        /\ listResp[r] = Response(200, "") /\ pc[r] = "done" /\ IsError500(res[r])
        /\ listResp[q] = Response(200, "<html>no links</html>") /\ pc[q] = "thrown"

\* C5: a request whose CSV payload is the empty text is answered 500 with
\* an error body.
C5_EmptyPayloadGives500 ==
    \A r \in Reqs :
        (pc[r] = "done" /\ csvResp[r].kind = "response" /\ csvResp[r].body = "")
        => IsError500(res[r])

\* C6: at most LineCount - 1 records are produced and every record has
\* exactly as many keys as the header has fields.
C6_CountAndKeys ==
    stage = "parsed"
    => /\ Len(output) <= LineCount(input) - 1
       /\ \A m \in 1..Len(output) :
             Cardinality(DOMAIN output[m]) = FieldCount(LineOf(input, 1))

\* C7: when the listing body holds at least one CSV link, getLatestCsvUrl
\* returns the URL of the link whose timestamp is the greatest of all the
\* links in the body, in whatever order they appear.
C7_GreatestTimestamp ==
    (stage = "resolved" /\ LinkPositions(input) # {})
    => /\ output.ok
       /\ \E i \in LinkPositions(input) :
             /\ output.url = LIST_URL \o FileAt(input, i)
             /\ \A j \in LinkPositions(input) :
                   NotLater(FileAt(input, j), FileAt(input, i))

\* C8: a blank line never becomes a record: there are no more records than
\* non-blank lines after the header.
C8_BlankLineNoRecord ==
    stage = "parsed"
    => Len(output) <= Cardinality({k \in 2..LineCount(input) : LineOf(input, k) # ""})

\* C9: serialising the records of a parsed text under its header and
\* parsing that text again yields the same records.
C9_RoundTrip ==
    stage = "parsed"
    => ParseCsv(Serialise(HeadersOf(input), output)) = output

\* C9 witness: a parsed text with two different records whose serialisation
\* is not the text that was parsed (a line was dropped on the way).
C9_Witness ==
    /\ stage = "parsed"
    /\ Len(output) = 2
    /\ output[1] # output[2]
    /\ Serialise(HeadersOf(input), output) # input
    /\ LineCount(input) > 3

\* C10: each request fetches the listing and then the CSV its own listing
\* names, and its answer is the one its own two fetch results give,
\* whatever the other requests are doing.
C10_OwnFetchesOnly ==
    \A r \in Reqs :
        /\ pc[r] = "idle" => fetches[r] = << >>
        /\ pc[r] \in {"awaitListing", "readListing", "urlReturned"}
            => fetches[r] = <<LIST_URL>>
        /\ pc[r] \in {"awaitCsv", "readCsv"}
            => /\ fetches[r] = <<LIST_URL, getLatestCsvUrl(listResp[r].body).url>>
               /\ url[r] = getLatestCsvUrl(listResp[r].body).url
        /\ pc[r] \in {"thrown", "done"}
            => /\ SubSeq(fetches[r], 1, 1) = <<LIST_URL>>
               /\ Len(fetches[r]) <= 2
        /\ pc[r] = "done"
            => /\ res[r].status \in {200, 500}
               /\ res[r].status = 200
                    => /\ fetches[r] = <<LIST_URL, res[r].body.arquivo>>
                       /\ res[r].body.arquivo = getLatestCsvUrl(listResp[r].body).url
                       /\ res[r].body.dados = ParseCsv(csvResp[r].body)
                       /\ res[r].body.total_registros = Len(res[r].body.dados)
               /\ res[r].status = 500
                    => \/ listResp[r].kind \in {"rejected", "bodyfailed"}
                       \/ NoLinkArrived(r)
                       \/ csvResp[r].kind \in {"rejected", "bodyfailed"}

\* C10 witness: one request is answered from its listing and CSV while
\* another, whose listing named a different file, has its CSV fetch
\* resolved and still reads the body.
C10_Witness ==
    \E r, q \in Reqs :
        /\ r # q
        /\ pc[r] = "done" /\ res[r].status = 200
        /\ pc[q] = "readCsv"
        /\ url[q] # url[r]

====
